---- MODULE Spec2Model ----
(***************************************************************************)
(* Model of webpack's Module (lib/Module.js, carried in                    *)
(* src/lib/dependencies/NullDependency.js from line 35 on), of Dependency  *)
(* (src/lib/Dependency.js) and of the Chunk / ChunkGroup surface Module    *)
(* calls.                                                                  *)
(*                                                                         *)
(* JavaScript values are encoded as strings ("null", "undefined", "1"),    *)
(* booleans stay booleans where the field is only ever a boolean.  A       *)
(* method is an operator from the heap (the objects' fields) to the new    *)
(* heap and the method's outcome; an action applies one method call.       *)
(***************************************************************************)
EXTENDS Integers, Sequences, FiniteSets, TLC

VARIABLES
    modules,       \* Module objects: name -> fields
    debugId,       \* the process-wide `let debugId` counter
    chunkModules,  \* Chunk._modules: chunk -> set of modules
    depModule,     \* Dependency.module: dependency -> target module or null
    depFlags,      \* Dependency.weak and .optional: dependency -> flags
    hash,          \* the hash object handed to updateHash: its update calls
    walk,          \* the loop of isAccessibleInChunkGroup, run step by step
    groupChunks,   \* ChunkGroup.chunks: group -> set of chunks
    parents,       \* ChunkGroup._parents: group -> set of groups
    initial,       \* ChunkGroup.isInitial(): group -> BOOLEAN
    last           \* the last call: method, receiver and arguments, outcome

vars == <<modules, debugId, chunkModules, depModule, depFlags, hash, walk,
          groupChunks, parents, initial, last>>

graphVars == <<groupChunks, parents, initial>>

----------------------------------------------------------------------------
(* Values *)

NULL == "null"

UNDEFINED == "undefined"

NoException == "none"

TypeError == "TypeError"

Modules == {"M", "A"}

\* the modules whose methods the actions call; the other modules are the
\* origins of reasons and targets of dependencies
Receivers == {"M"}

Chunks == {"c1", "c2"}

Groups == {"g1", "g2", "g3"}

\* d1 and d2 are dependencies of A on M, e1 is the dependency of M on A
Dependencies == {"d1", "d2", "e1"}

\* (origin module, dependency) pairs addReason is called with
ReasonArgs == {<<"A", "d1">>, <<"A", "d2">>, <<NULL, "d1">>}

\* pairs removeReason is called with: every pair, matching or not
ReasonKeys == ReasonArgs \cup {<<NULL, "d2">>, <<"M", "d1">>, <<"A", NULL>>}

\* longest reasons list the model builds
MaxReasons == 3

\* longest reasons list of a module whose reachability is queried
MaxOriginReasons == 1

\* largest number of parent links in a chunk-group graph
MaxParentLinks == 2

\* largest number of (group, chunk) links in a chunk-group graph
MaxChunkLinks == 2

----------------------------------------------------------------------------
(* Objects *)

NoBuildMeta == [defined |-> FALSE, exportsType |-> UNDEFINED,
                providedIsArray |-> FALSE, providedExports |-> <<>>]

UsedExportsNull == [tag |-> "null", names |-> <<>>]

ModuleReason(module, dependency, explanation) ==
    [module |-> module, dependency |-> dependency, explanation |-> explanation]

\* new Module(type, context): the fields the constructor sets
\* (_chunks, a SortableSet, is a set here: no operation modelled reads its
\* iteration order)
Module(dbg) ==
    [ debugId |-> dbg,
      hash |-> UNDEFINED,
      renderedHash |-> UNDEFINED,
      buildMeta |-> NoBuildMeta,
      buildInfo |-> UNDEFINED,
      reasons |-> <<>>,
      _chunks |-> {},
      id |-> NULL,
      index |-> NULL,
      index2 |-> NULL,
      depth |-> NULL,
      issuer |-> NULL,
      profile |-> UNDEFINED,
      prefetched |-> FALSE,
      built |-> FALSE,
      used |-> NULL,
      usedExports |-> UsedExportsNull,
      optimizationBailout |-> <<>>,
      dependencies |-> <<>>,
      blocks |-> <<>>,
      variables |-> <<>> ]

Heap == [modules |-> modules, chunkModules |-> chunkModules, depModule |-> depModule,
         depFlags |-> depFlags, hash |-> hash]

Outcome(h, ret) == [heap |-> h, ret |-> ret, exc |-> NoException]

Call(op, args, r) == [op |-> op, args |-> args, ret |-> r.ret, exc |-> r.exc]

NoCall == [op |-> "none", args |-> <<>>, ret |-> UNDEFINED, exc |-> NoException]

\* the order in which the groups were created
GroupOrder == <<"g1", "g2", "g3">>

\* an iteration order of a set of groups
GroupSeq(S) == SelectSeq(GroupOrder, LAMBDA g : g \in S)

Range(s) == {s[i] : i \in 1..Len(s)}

----------------------------------------------------------------------------
(* Chunk, as Module uses it *)

\* chunk.containsModule(module)
containsModule(h, chunk, module) == module \in h.chunkModules[chunk]

\* chunk.removeModule(module)
removeModule(h, chunk, module) ==
    [h EXCEPT !.chunkModules[chunk] = @ \ {module}]

\* chunk.addModule(module)
addModule(h, chunk, module) ==
    [h EXCEPT !.chunkModules[chunk] = @ \cup {module}]

\* chunk.groupsIterable: the groups the chunk is in
groupsIterable(chunk) == {g \in Groups : chunk \in groupChunks[g]}

\* chunkGroup.isInitial()
isInitial(chunkGroup) == initial[chunkGroup]

\* chunkGroup.parentsIterable
parentsIterable(chunkGroup) == parents[chunkGroup]

----------------------------------------------------------------------------
(* Dependency and DependenciesBlock *)

\* Dependency.disconnect()
Dependency_disconnect(h, dep) == [h EXCEPT !.depModule[dep] = NULL]

RECURSIVE DependenciesBlock_disconnectFrom(_, _, _)
DependenciesBlock_disconnectFrom(h, deps, i) ==
    IF i > Len(deps) THEN h
    ELSE DependenciesBlock_disconnectFrom(Dependency_disconnect(h, deps[i]), deps, i + 1)

\* DependenciesBlock.disconnect(): disconnects every owned dependency
DependenciesBlock_disconnect(h, this) ==
    DependenciesBlock_disconnectFrom(h, h.modules[this].dependencies, 1)

\* DependenciesBlock.unseal(): unseals the nested blocks, which hold no
\* state of the module
DependenciesBlock_unseal(h, this) == h

----------------------------------------------------------------------------
(* Module: chunk membership *)

\* addChunk that puts the new chunk in the place of the set
addChunk_replacesSet(h, this, chunk) ==
    IF chunk \in h.modules[this]._chunks
    THEN Outcome(h, FALSE)
    ELSE Outcome([h EXCEPT !.modules[this]._chunks = {chunk}], TRUE)

addChunk(h, this, chunk) ==
    IF chunk \in h.modules[this]._chunks
    THEN Outcome(h, FALSE)
    ELSE Outcome([h EXCEPT !.modules[this]._chunks = @ \cup {chunk}], TRUE)

\* mutant: the chunk's side is left alone
removeChunk_keepsChunkSide(h, this, chunk) ==
    IF chunk \in h.modules[this]._chunks
    THEN Outcome([h EXCEPT !.modules[this]._chunks = @ \ {chunk}], TRUE)
    ELSE Outcome(h, FALSE)

\* mutant: chunk.removeModule is invoked whether or not the chunk was a member
removeChunk_alwaysRemoveModule(h, this, chunk) ==
    LET h1 == [h EXCEPT !.modules[this]._chunks = @ \ {chunk}]
    IN Outcome(removeModule(h1, chunk, this), chunk \in h.modules[this]._chunks)

removeChunk(h, this, chunk) ==
    IF chunk \in h.modules[this]._chunks
    THEN LET h1 == [h EXCEPT !.modules[this]._chunks = @ \ {chunk}]
         IN Outcome(removeModule(h1, chunk, this), TRUE)
    ELSE Outcome(h, FALSE)

isInChunk(h, this, chunk) == chunk \in h.modules[this]._chunks

setChunks(h, this, chunks) ==
    Outcome([h EXCEPT !.modules[this]._chunks = chunks], UNDEFINED)

getNumberOfChunks(h, this) == Cardinality(h.modules[this]._chunks)

----------------------------------------------------------------------------
(* Module: reasons *)

\* mutant: the reason is pushed twice
addReason_pushTwice(h, this, module, dependency, explanation) ==
    Outcome([h EXCEPT !.modules[this].reasons =
                 Append(Append(@, ModuleReason(module, dependency, explanation)),
                        ModuleReason(module, dependency, explanation))],
            UNDEFINED)

addReason(h, this, module, dependency, explanation) ==
    Outcome([h EXCEPT !.modules[this].reasons =
                 Append(@, ModuleReason(module, dependency, explanation))],
            UNDEFINED)

\* reasons.splice(i, 1)
Splice1(s, i) == SubSeq(s, 1, i - 1) \o SubSeq(s, i + 1, Len(s))

RECURSIVE removeReasonFrom_moduleOnly(_, _, _, _, _)
\* mutant: a reason matches on its origin module alone
removeReasonFrom_moduleOnly(h, this, module, dependency, i) ==
    LET reasons == h.modules[this].reasons IN
    IF i > Len(reasons) THEN Outcome(h, FALSE)
    ELSE IF reasons[i].module = module
         THEN Outcome([h EXCEPT !.modules[this].reasons = Splice1(reasons, i)], TRUE)
         ELSE removeReasonFrom_moduleOnly(h, this, module, dependency, i + 1)

RECURSIVE removeReasonFrom(_, _, _, _, _)
\* the for loop of removeReason, from index i (1-based)
removeReasonFrom(h, this, module, dependency, i) ==
    LET reasons == h.modules[this].reasons IN
    IF i > Len(reasons) THEN Outcome(h, FALSE)
    ELSE IF reasons[i].module = module /\ reasons[i].dependency = dependency
         THEN Outcome([h EXCEPT !.modules[this].reasons = Splice1(reasons, i)], TRUE)
         ELSE removeReasonFrom(h, this, module, dependency, i + 1)

removeReason(h, this, module, dependency) ==
    removeReasonFrom(h, this, module, dependency, 1)

hasReasons(h, this) == Len(h.modules[this].reasons) > 0

----------------------------------------------------------------------------
(* Module: lifecycle *)

\* mutant: the reasons are kept
disconnect_keepsReasons(h, this) ==
    LET h1 == [h EXCEPT !.modules[this] =
                 [@ EXCEPT !.hash = UNDEFINED,
                           !.renderedHash = UNDEFINED,
                           !._chunks = {},
                           !.id = NULL,
                           !.index = NULL,
                           !.index2 = NULL,
                           !.depth = NULL,
                           !.issuer = NULL,
                           !.profile = UNDEFINED,
                           !.prefetched = FALSE,
                           !.built = FALSE,
                           !.used = NULL,
                           !.usedExports = UsedExportsNull,
                           !.optimizationBailout = <<>>]]
    IN Outcome(DependenciesBlock_disconnect(h1, this), UNDEFINED)

disconnect(h, this) ==
    LET h1 == [h EXCEPT !.modules[this] =
                 [@ EXCEPT !.hash = UNDEFINED,
                           !.renderedHash = UNDEFINED,
                           !.reasons = <<>>,
                           !._chunks = {},
                           !.id = NULL,
                           !.index = NULL,
                           !.index2 = NULL,
                           !.depth = NULL,
                           !.issuer = NULL,
                           !.profile = UNDEFINED,
                           !.prefetched = FALSE,
                           !.built = FALSE,
                           !.used = NULL,
                           !.usedExports = UsedExportsNull,
                           !.optimizationBailout = <<>>]]
    IN Outcome(DependenciesBlock_disconnect(h1, this), UNDEFINED)

\* mutant: the hashes are cleared as well
unseal_clearsHash(h, this) ==
    LET h1 == [h EXCEPT !.modules[this] =
                 [@ EXCEPT !.id = NULL,
                           !.index = NULL,
                           !.index2 = NULL,
                           !.depth = NULL,
                           !.hash = UNDEFINED,
                           !.renderedHash = UNDEFINED,
                           !._chunks = {}]]
    IN Outcome(DependenciesBlock_unseal(h1, this), UNDEFINED)

unseal(h, this) ==
    LET h1 == [h EXCEPT !.modules[this] =
                 [@ EXCEPT !.id = NULL,
                           !.index = NULL,
                           !.index2 = NULL,
                           !.depth = NULL,
                           !._chunks = {}]]
    IN Outcome(DependenciesBlock_unseal(h1, this), UNDEFINED)

unbuild(h, this) ==
    LET h1 == [h EXCEPT !.modules[this] =
                 [@ EXCEPT !.dependencies = <<>>,
                           !.blocks = <<>>,
                           !.variables = <<>>,
                           !.buildMeta = NoBuildMeta,
                           !.buildInfo = UNDEFINED]]
    IN disconnect(h1, this)

----------------------------------------------------------------------------
(* Module: reachability *)

\* queue.push(x) for each x of xs, as an array would: nothing is left out
QueueAddAll_pushAll(queue, xs, i) == queue \o SubSeq(xs, i, Len(xs))

RECURSIVE QueueAddAll(_, _, _)
\* queue.add(x) for each x of xs: a Set keeps the first insertion only
QueueAddAll(queue, xs, i) ==
    IF i > Len(xs) THEN queue
    ELSE QueueAddAll(IF xs[i] \in Range(queue) THEN queue ELSE Append(queue, xs[i]),
                     xs, i + 1)

RECURSIVE isAccessibleInChunkGroupFrom_noInitialCheck(_, _, _, _, _, _)
\* mutant: step 2, the test for an initial group, is missing
isAccessibleInChunkGroupFrom_noInitialCheck(h, this, chunkGroup, ignoreChunk, queue, i) ==
    IF i > Len(queue) THEN TRUE
    ELSE LET cg == queue[i] IN
         IF \E chunk \in groupChunks[cg] :
                chunk # ignoreChunk /\ containsModule(h, chunk, this)
         THEN isAccessibleInChunkGroupFrom_noInitialCheck(h, this, chunkGroup, ignoreChunk,
                  queue, i + 1)
         ELSE isAccessibleInChunkGroupFrom_noInitialCheck(h, this, chunkGroup, ignoreChunk,
                  QueueAddAll(queue, GroupSeq(parentsIterable(chunkGroup)), 1), i + 1)

RECURSIVE isAccessibleInChunkGroupFrom_drainedIsFalse(_, _, _, _, _, _)
\* mutant: a queue that drains without a group holding the module yields false
isAccessibleInChunkGroupFrom_drainedIsFalse(h, this, chunkGroup, ignoreChunk, queue, i) ==
    IF i > Len(queue)
    THEN \E g \in Range(queue) : \E chunk \in groupChunks[g] :
             chunk # ignoreChunk /\ containsModule(h, chunk, this)
    ELSE LET cg == queue[i] IN
         IF \E chunk \in groupChunks[cg] :
                chunk # ignoreChunk /\ containsModule(h, chunk, this)
         THEN isAccessibleInChunkGroupFrom_drainedIsFalse(h, this, chunkGroup, ignoreChunk,
                  queue, i + 1)
         ELSE IF isInitial(chunkGroup) THEN FALSE
         ELSE isAccessibleInChunkGroupFrom_drainedIsFalse(h, this, chunkGroup, ignoreChunk,
                  QueueAddAll(queue, GroupSeq(parentsIterable(chunkGroup)), 1), i + 1)

RECURSIVE isAccessibleInChunkGroupFrom(_, _, _, _, _, _)
\* the queueFor loop, at the i-th item of the queue (a Set iterated while it
\* grows: items added during the iteration are visited)
isAccessibleInChunkGroupFrom(h, this, chunkGroup, ignoreChunk, queue, i) ==
    IF i > Len(queue) THEN TRUE
    ELSE LET cg == queue[i] IN
         IF \E chunk \in groupChunks[cg] :
                chunk # ignoreChunk /\ containsModule(h, chunk, this)
         THEN isAccessibleInChunkGroupFrom(h, this, chunkGroup, ignoreChunk, queue, i + 1)
         ELSE IF isInitial(chunkGroup) THEN FALSE
         ELSE isAccessibleInChunkGroupFrom(h, this, chunkGroup, ignoreChunk,
                  QueueAddAll(queue, GroupSeq(parentsIterable(chunkGroup)), 1), i + 1)

isAccessibleInChunkGroup(h, this, chunkGroup, ignoreChunk) ==
    isAccessibleInChunkGroupFrom(h, this, chunkGroup, ignoreChunk, <<chunkGroup>>, 1)

isAccessibleInChunk(h, this, chunk, ignoreChunk) ==
    \A chunkGroup \in groupsIterable(chunk) :
        isAccessibleInChunkGroup(h, this, chunkGroup, UNDEFINED)

RECURSIVE hasReasonForChunkFrom(_, _, _, _)
\* the loop over this.reasons, from index i; reading chunksIterable of a
\* null origin module throws
hasReasonForChunkFrom(h, this, chunk, i) ==
    LET reasons == h.modules[this].reasons IN
    IF i > Len(reasons) THEN Outcome(h, FALSE)
    ELSE LET fromModule == reasons[i].module IN
         IF fromModule = NULL
         THEN [heap |-> h, ret |-> UNDEFINED, exc |-> TypeError]
         ELSE IF \E originChunk \in h.modules[fromModule]._chunks :
                     ~isAccessibleInChunk(h, this, originChunk, chunk)
              THEN Outcome(h, TRUE)
              ELSE hasReasonForChunkFrom(h, this, chunk, i + 1)

\* hasReasonForChunk that takes the reasons off the list as it goes
hasReasonForChunk_consumesReasons(h, this, chunk) ==
    LET r == hasReasonForChunkFrom(h, this, chunk, 1)
    IN [r EXCEPT !.heap.modules[this].reasons = <<>>]

hasReasonForChunk(h, this, chunk) == hasReasonForChunkFrom(h, this, chunk, 1)

----------------------------------------------------------------------------
(* Actions: one per call *)

Apply(op, args, r) ==
    /\ modules' = r.heap.modules
    /\ chunkModules' = r.heap.chunkModules
    /\ depModule' = r.heap.depModule
    /\ depFlags' = r.heap.depFlags
    /\ hash' = r.heap.hash
    /\ last' = Call(op, args, r)
    /\ UNCHANGED <<debugId, walk, graphVars>>

AddChunk(this, chunk) ==
    Apply("addChunk", <<this, chunk>>, addChunk(Heap, this, chunk))

RemoveChunk(this, chunk) ==
    Apply("removeChunk", <<this, chunk>>, removeChunk(Heap, this, chunk))

SetChunks(this, chunks) ==
    Apply("setChunks", <<this>>, setChunks(Heap, this, chunks))

AddReason(this, module, dependency) ==
    /\ Len(modules[this].reasons) < MaxReasons
    /\ Apply("addReason", <<this, module, dependency>>,
             addReason(Heap, this, module, dependency, "x"))

RemoveReason(this, module, dependency) ==
    Apply("removeReason", <<this, module, dependency>>,
          removeReason(Heap, this, module, dependency))

Disconnect(this) ==
    Apply("disconnect", <<this>>, disconnect(Heap, this))

Unseal(this) ==
    Apply("unseal", <<this>>, unseal(Heap, this))

Unbuild(this) ==
    Apply("unbuild", <<this>>, unbuild(Heap, this))

IsAccessibleInChunkGroup(this, chunkGroup, ignoreChunk) ==
    Apply("isAccessibleInChunkGroup", <<this, chunkGroup, ignoreChunk>>,
          Outcome(Heap, isAccessibleInChunkGroup(Heap, this, chunkGroup, ignoreChunk)))

IsAccessibleInChunk(this, chunk, ignoreChunk) ==
    Apply("isAccessibleInChunk", <<this, chunk, ignoreChunk>>,
          Outcome(Heap, isAccessibleInChunk(Heap, this, chunk, ignoreChunk)))

HasReasonForChunk(this, chunk) ==
    Apply("hasReasonForChunk", <<this, chunk>>, hasReasonForChunk(Heap, this, chunk))

----------------------------------------------------------------------------
(* Actions of the collaborators: the chunk graph builder, the factory, the
   build and the seal of the compilation write these fields *)

\* chunk.addModule(module), the chunk's half of connecting chunk and module
ChunkAddModule(chunk, module) ==
    Apply("chunk.addModule", <<chunk, module>>,
          Outcome(addModule(Heap, chunk, module), UNDEFINED))

\* the build fills the fields under "Info from Build" and the dependencies,
\* and the factory links the module's dependency e1 to its target
Build(this) ==
    Apply("build", <<this>>,
          Outcome([Heap EXCEPT !.depModule["e1"] = "A", !.modules[this] =
                      [@ EXCEPT !.built = TRUE,
                                !.buildMeta = [defined |-> TRUE, exportsType |-> "namespace",
                                               providedIsArray |-> TRUE,
                                               providedExports |-> <<"foo">>],
                                !.buildInfo = "info",
                                !.issuer = "A",
                                !.profile = "profile",
                                !.prefetched = TRUE,
                                !.dependencies = <<"e1">>]],
                  UNDEFINED))

\* the seal fills the fields under "Info from Compilation" and "Info from
\* Optimization", and the hashes
Seal(this) ==
    Apply("seal", <<this>>,
          Outcome([Heap EXCEPT !.modules[this] =
                      [@ EXCEPT !.id = "1",
                                !.index = "2",
                                !.index2 = "3",
                                !.depth = "4",
                                !.hash = "hash",
                                !.renderedHash = "renderedHash",
                                !.used = "true",
                                !.usedExports = [tag |-> "array", names |-> <<"foo", "bar">>],
                                !.optimizationBailout = <<"bailout">>]],
                  UNDEFINED))

----------------------------------------------------------------------------
(* Specifications *)

NoGraph ==
    /\ groupChunks = [g \in Groups |-> {}]
    /\ parents = [g \in Groups |-> {}]
    /\ initial = [g \in Groups |-> FALSE]

\* after `new Module` of M, then of A
Constructed ==
    /\ modules = [m \in Modules |-> Module(IF m = "M" THEN 1000 ELSE 1001)]
    /\ debugId = 1002

\* A's dependencies d1 and d2 are resolved to M, M's e1 is not resolved yet
Resolved == depModule = [d \in Dependencies |-> IF d = "e1" THEN NULL ELSE "M"]

\* new Dependency(): weak and optional are false
NewFlags == [weak |-> FALSE, optional |-> FALSE]

\* no traversal is running
NoWalk == [pc |-> "idle", this |-> NULL, chunkGroup |-> NULL, ignoreChunk |-> UNDEFINED,
           queue |-> <<>>, i |-> 0, ret |-> FALSE]

\* the dependencies as constructed, a hash nobody has updated, no traversal
Fresh ==
    /\ depFlags = [d \in Dependencies |-> NewFlags]
    /\ hash = <<>>
    /\ walk = NoWalk

Init ==
    /\ Constructed
    /\ chunkModules = [c \in Chunks |-> {}]
    /\ Resolved
    /\ Fresh
    /\ NoGraph
    /\ last = NoCall

Next ==
    \/ \E this \in Receivers, chunk \in Chunks : AddChunk(this, chunk)
    \/ \E this \in Receivers, chunk \in Chunks : RemoveChunk(this, chunk)
    \/ \E this \in Receivers, chunks \in SUBSET Chunks : SetChunks(this, chunks)
    \/ \E this \in Receivers, a \in ReasonArgs : AddReason(this, a[1], a[2])
    \/ \E this \in Receivers, k \in ReasonKeys : RemoveReason(this, k[1], k[2])
    \/ \E this \in Receivers : Disconnect(this)
    \/ \E this \in Receivers : Unseal(this)
    \/ \E this \in Receivers : Unbuild(this)
    \/ \E chunk \in Chunks, module \in Receivers : ChunkAddModule(chunk, module)
    \/ \E this \in Receivers : Build(this)
    \/ \E this \in Receivers : Seal(this)

Spec == Init /\ [][Next]_vars

LinkCount(f) == Cardinality({p \in (DOMAIN f) \X (UNION {f[x] : x \in DOMAIN f}) : p[2] \in f[p[1]]})

\* a chunk-group graph as the chunk graph builder leaves it, and the module
\* M connected to some of its chunks (both sides of the membership)
InitGroup ==
    /\ debugId = 1002
    /\ Resolved
    /\ Fresh
    /\ initial \in [Groups -> BOOLEAN]
    /\ parents \in [Groups -> SUBSET Groups]
    /\ LinkCount(parents) <= MaxParentLinks
    /\ groupChunks \in [Groups -> SUBSET Chunks]
    /\ LinkCount(groupChunks) <= MaxChunkLinks
    /\ chunkModules \in [Chunks -> SUBSET Receivers]
    /\ modules = [m \in Modules |->
                    [Module(IF m = "M" THEN 1000 ELSE 1001)
                        EXCEPT !._chunks = {c \in Chunks : m \in chunkModules[c]}]]
    /\ last = NoCall

\* the graphs of InitGroup are closed under renaming the groups, so the
\* query starts at one group
NextGroup ==
    \E this \in Receivers, ignoreChunk \in Chunks \cup {UNDEFINED} :
        IsAccessibleInChunkGroup(this, "g1", ignoreChunk)

SpecGroup == InitGroup /\ [][NextGroup]_vars

\* lists of at most n reasons with origin A or no origin
RECURSIVE OriginLists(_)
OriginLists(n) ==
    IF n = 0 THEN {<<>>}
    ELSE LET shorter == OriginLists(n - 1)
         IN shorter \cup {Append(l, ModuleReason(o, "d1", "x")) :
                             l \in shorter, o \in {"A", NULL}}

\* a chunk-group graph over g1 and g2, the modules M and A connected to
\* some of its chunks (both sides of the membership), and reasons of M
InitReason ==
    /\ debugId = 1002
    /\ Resolved
    /\ Fresh
    /\ initial \in [Groups -> BOOLEAN]
    /\ ~initial["g3"]
    /\ parents \in [Groups -> SUBSET (Groups \ {"g3"})]
    /\ parents["g3"] = {}
    /\ LinkCount(parents) <= MaxParentLinks
    /\ groupChunks \in [Groups -> SUBSET Chunks]
    /\ groupChunks["g3"] = {}
    /\ LinkCount(groupChunks) <= MaxChunkLinks
    /\ chunkModules \in [Chunks -> SUBSET Modules]
    /\ \E reasons \in OriginLists(MaxOriginReasons) :
          modules = [m \in Modules |->
                       [Module(IF m = "M" THEN 1000 ELSE 1001)
                           EXCEPT !._chunks = {c \in Chunks : m \in chunkModules[c]},
                                  !.reasons = IF m = "M" THEN reasons ELSE <<>>]]
    /\ last = NoCall

NextReason ==
    \/ \E this \in Receivers, chunk \in Chunks : HasReasonForChunk(this, chunk)
    \/ \E this \in Receivers, chunk \in Chunks, ignoreChunk \in Chunks \cup {UNDEFINED} :
           IsAccessibleInChunk(this, chunk, ignoreChunk)

SpecReason == InitReason /\ [][NextReason]_vars

----------------------------------------------------------------------------
(* Claims: chunk membership *)

\* m.isInChunk(c) == c.containsModule(m), for every module and chunk
MembershipSymmetric ==
    \A m \in Modules, c \in Chunks :
        isInChunk(Heap, m, c) = containsModule(Heap, c, m)

\* every chunk that contains a module is in that module's chunk set
ChunkSideWithin ==
    \A m \in Modules, c \in Chunks :
        containsModule(Heap, c, m) => isInChunk(Heap, m, c)

\* C1, as stated: from a symmetric membership (the empty one at the start),
\* every addChunk and every removeChunk call leaves m.isInChunk(c) equal to
\* c.containsModule(m) for every module m and chunk c.
C1_SymmetryAfterAddRemove ==
    [][(MembershipSymmetric /\ last'.op \in {"addChunk", "removeChunk"})
          => MembershipSymmetric']_vars

\* C1, amended: addChunk(c) puts c in the module's chunk set and leaves the
\* chunk's module set as it was; removeChunk(c) takes c out of the module's
\* chunk set and, when it returns true, the module out of c's module set.  So
\* removeChunk keeps a symmetric membership symmetric, and both calls keep
\* "c.containsModule(m) implies m.isInChunk(c)".
C1_AddOneSideRemoveBothSides ==
    [][last'.op \in {"addChunk", "removeChunk"} =>
          LET this == last'.args[1]
              c == last'.args[2]
          IN /\ ChunkSideWithin => ChunkSideWithin'
             /\ last'.op = "addChunk" =>
                   /\ isInChunk(Heap', this, c)
                   /\ chunkModules' = chunkModules
             /\ last'.op = "removeChunk" =>
                   /\ ~isInChunk(Heap', this, c)
                   /\ last'.ret => ~containsModule(Heap', c, this)
                   /\ MembershipSymmetric => MembershipSymmetric']_vars

\* a removeChunk that returned true while another chunk and the module are
\* still members of each other
C1_Witness ==
    /\ last.op = "removeChunk"
    /\ last.ret = TRUE
    /\ ~containsModule(Heap, last.args[2], last.args[1])
    /\ \E c \in Chunks :
          containsModule(Heap, c, last.args[1]) /\ isInChunk(Heap, last.args[1], c)

----------------------------------------------------------------------------
(* Claims: reachability *)

\* the module is in a chunk of the group
InGroup(this, g) == \E c \in groupChunks[g] : containsModule(Heap, c, this)

RECURSIVE UpFrom(_, _)
\* the groups reached from S through at most n parent links
UpFrom(S, n) ==
    IF n = 0 THEN S
    ELSE UpFrom(S \cup UNION {parents[g] : g \in S}, n - 1)

\* g and its ancestors
UpSet(g) == UpFrom({g}, Cardinality(Groups))

\* the last call is isAccessibleInChunkGroup(chunkGroup) on `this`, and it returned
GroupQuery(this, chunkGroup) ==
    /\ last.op = "isAccessibleInChunkGroup"
    /\ last.args[1] = this
    /\ last.args[2] = chunkGroup

\* P1 and P2 are parents of the non-initial C, the module is in no chunk of C,
\* in a chunk of P1, in no chunk of P2 or of an ancestor of P2, and an initial
\* group is among P2 and its ancestors
Diamond(this, C, P1, P2) ==
    /\ P1 # P2 /\ P1 # C /\ P2 # C
    /\ {P1, P2} \subseteq parents[C]
    /\ ~initial[C]
    /\ ~InGroup(this, C)
    /\ InGroup(this, P1)
    /\ \A g \in UpSet(P2) : ~InGroup(this, g)
    /\ \E g \in UpSet(P2) : initial[g]

\* C2, as stated: in a diamond where the module is reachable through the
\* parent P1 but not through the parent P2, isAccessibleInChunkGroup(C) is false.
C2_DiamondIsInaccessible ==
    \A this \in Receivers, C \in Groups, P1 \in Groups, P2 \in Groups :
        (GroupQuery(this, C) /\ last.args[3] = UNDEFINED /\ Diamond(this, C, P1, P2))
            => (last.exc = NoException /\ last.ret = FALSE)

\* the module is in no chunk of the group or of a group reachable from it
\* through parent links
NowhereAbove(this, g) == \A a \in UpSet(g) : ~InGroup(this, a)

\* C4, as stated: when the module is in no chunk of the start group or of any
\* group reachable from it through parent links, isAccessibleInChunkGroup
\* returns false and does not raise.
C4_UnreachableIsFalse ==
    \A this \in Receivers, g \in Groups :
        (GroupQuery(this, g) /\ NowhereAbove(this, g))
            => (last.exc = NoException /\ last.ret = FALSE)

\* C4, amended: isAccessibleInChunkGroup never raises; when the module is in
\* no chunk of the start group or of any group reachable from it through
\* parent links, it returns false for an initial start group, and true (the
\* queue drains) for a non-initial start group with no parents at all.
C4_UnreachableByStartGroup ==
    \A this \in Receivers, g \in Groups :
        GroupQuery(this, g) =>
            /\ last.exc = NoException
            /\ last.ret \in BOOLEAN
            /\ NowhereAbove(this, g) =>
                  /\ initial[g] => last.ret = FALSE
                  /\ (~initial[g] /\ parents[g] = {}) => last.ret = TRUE

\* a query from a non-initial group without parents, the module in a chunk of
\* some other group
C4_Witness ==
    \E this \in Receivers, g \in Groups :
        /\ GroupQuery(this, g)
        /\ NowhereAbove(this, g)
        /\ ~initial[g]
        /\ parents[g] = {}
        /\ groupChunks[g] # {}
        /\ \E other \in Groups : InGroup(this, other)
        /\ last.ret = TRUE

\* C5: for an initial group H none of whose chunks contains the module,
\* isAccessibleInChunkGroup(H) is false, whatever the other groups hold and
\* whichever chunk is ignored.
C5_EntryBoundary ==
    \A this \in Receivers, H \in Groups :
        (GroupQuery(this, H) /\ initial[H] /\ ~InGroup(this, H))
            => (last.exc = NoException /\ last.ret = FALSE)

\* a query from an initial group without the module, whose initial sibling
\* holds the module and which has a parent that holds it too
C5_Witness ==
    \E this \in Receivers, H \in Groups, G \in Groups :
        /\ G # H
        /\ GroupQuery(this, H)
        /\ initial[H] /\ ~InGroup(this, H) /\ groupChunks[H] # {}
        /\ initial[G] /\ InGroup(this, G)
        /\ G \in parents[H]
        /\ last.ret = FALSE

\* the module is accessible in every group of the chunk o when `chunk` is
\* ignored at every level of the traversal
AccessibleIgnoring(this, o, chunk) ==
    \A g \in groupsIterable(o) : isAccessibleInChunkGroup(Heap, this, g, chunk)

\* C3, as stated: hasReasonForChunk(chunk) is true iff some reason's origin
\* module is in a chunk o in which the module is not accessible when `chunk`
\* is ignored (for reasons that all have an origin module).
C3_HasReasonIgnoringChunk ==
    \A this \in Receivers :
        (/\ last.op = "hasReasonForChunk"
         /\ last.args[1] = this
         /\ \A i \in 1..Len(modules[this].reasons) : modules[this].reasons[i].module # NULL)
        => /\ last.exc = NoException
           /\ last.ret =
                 (\E i \in 1..Len(modules[this].reasons) :
                     \E o \in modules[modules[this].reasons[i].module]._chunks :
                         ~AccessibleIgnoring(this, o, last.args[2]))

----------------------------------------------------------------------------
(* Claims: reasons *)

\* the reason was recorded for the origin module and the dependency
Matches(r, module, dependency) == r.module = module /\ r.dependency = dependency

\* no two reasons of the list share origin module and dependency
UniqueReasons(rs) ==
    \A i \in 1..Len(rs), j \in 1..Len(rs) :
        i # j => ~Matches(rs[i], rs[j].module, rs[j].dependency)

\* C6, as stated: in every reachable state the reasons list holds at most one
\* ModuleReason per (origin module, dependency) pair.
C6_OneReasonPerPair ==
    \A m \in Modules : UniqueReasons(modules[m].reasons)

\* C6, amended: the reasons list holds at most one ModuleReason per pair as
\* long as addReason is not called for a pair the list already holds: every
\* call but such an addReason (which appends a second reason for the pair)
\* keeps a list without duplicates free of them.
C6_OneReasonPerPairUnlessAddedTwice ==
    [][\A m \in Modules :
          (/\ UniqueReasons(modules[m].reasons)
           /\ ~(/\ last'.op = "addReason"
                /\ last'.args[1] = m
                /\ \E i \in 1..Len(modules[m].reasons) :
                      Matches(modules[m].reasons[i], last'.args[2], last'.args[3])))
          => UniqueReasons(modules'[m].reasons)]_vars

\* an addReason after which the list holds reasons for three different pairs
C6_Witness ==
    /\ last.op = "addReason"
    /\ Len(modules[last.args[1]].reasons) = 3
    /\ UniqueReasons(modules[last.args[1]].reasons)

\* C7: removeReason(m, d) returns true iff some reason has origin m and
\* dependency d; it then removes the first such reason and keeps the others
\* in their order.  With a single reason (A, dep1), removeReason(A, dep1)
\* returns true and leaves hasReasons() false; on the empty list it returns
\* false.
C7_RemoveReasonFirstMatch ==
    [][last'.op = "removeReason" =>
          LET this == last'.args[1]
              rs == modules[this].reasons
              after == modules'[this].reasons
              hits == {i \in 1..Len(rs) : Matches(rs[i], last'.args[2], last'.args[3])}
          IN /\ last'.exc = NoException
             /\ last'.ret = (hits # {})
             /\ hits # {} =>
                   \E i \in hits :
                       /\ \A j \in hits : i <= j
                       /\ Len(after) = Len(rs) - 1
                       /\ \A k \in 1..Len(after) :
                             after[k] = IF k < i THEN rs[k] ELSE rs[k + 1]
             /\ (Len(rs) = 1 /\ hits # {}) => (last'.ret = TRUE /\ ~hasReasons(Heap', this))
             /\ rs = <<>> => last'.ret = FALSE]_vars

\* a removeReason that returned true and left two reasons, one of them for
\* the pair it was called with
C7_Witness ==
    /\ last.op = "removeReason"
    /\ last.ret = TRUE
    /\ LET rs == modules[last.args[1]].reasons
       IN /\ Len(rs) = 2
          /\ rs[1] # rs[2]
          /\ \E i \in 1..Len(rs) : Matches(rs[i], last.args[2], last.args[3])

\* C8: removeChunk(c) for a chunk that is not in the module's chunk set, and
\* removeReason(m, d) without a matching reason, return false, do not raise,
\* and leave the module, every chunk's module set and the dependencies as
\* they were.
C8_DefensiveRemovalIsNoOp ==
    [][LET this == last'.args[1]
           missingChunk ==
               /\ last'.op = "removeChunk"
               /\ ~isInChunk(Heap, this, last'.args[2])
           missingReason ==
               /\ last'.op = "removeReason"
               /\ \A i \in 1..Len(modules[this].reasons) :
                     ~Matches(modules[this].reasons[i], last'.args[2], last'.args[3])
       IN (missingChunk \/ missingReason) =>
             /\ last'.ret = FALSE
             /\ last'.exc = NoException
             /\ Heap' = Heap]_vars

\* a removeChunk that returned false for a chunk that contains the module,
\* of a module that has reasons and another chunk
C8_Witness ==
    /\ last.op = "removeChunk"
    /\ last.ret = FALSE
    /\ containsModule(Heap, last.args[2], last.args[1])
    /\ hasReasons(Heap, last.args[1])
    /\ getNumberOfChunks(Heap, last.args[1]) = 1

----------------------------------------------------------------------------
(* Claims: lifecycle *)

\* C9: after disconnect() the chunk set and the reasons list are empty, hash
\* and renderedHash are unset, id, index, index2, depth and issuer are null,
\* and a second disconnect() changes nothing.
C9_DisconnectIdempotent ==
    last.op = "disconnect" =>
        LET this == last.args[1]
            m == modules[this]
        IN /\ m._chunks = {}
           /\ m.reasons = <<>>
           /\ ~hasReasons(Heap, this)
           /\ m.hash = UNDEFINED
           /\ m.renderedHash = UNDEFINED
           /\ m.id = NULL
           /\ m.index = NULL
           /\ m.index2 = NULL
           /\ m.depth = NULL
           /\ m.issuer = NULL
           /\ disconnect(Heap, this).heap = Heap

\* a disconnected module that was built: it keeps its dependency, whose
\* target is cleared
C9_Witness ==
    /\ last.op = "disconnect"
    /\ modules[last.args[1]].dependencies = <<"e1">>
    /\ depModule["e1"] = NULL
    /\ modules[last.args[1]].buildMeta.defined

\* C10: unseal() sets id, index, index2 and depth to null and empties the
\* chunk set; the reasons, the dependencies, hash and renderedHash, used and
\* usedExports, issuer, built and debugId stay as they were.
C10_UnsealFrame ==
    [][last'.op = "unseal" =>
          LET before == modules[last'.args[1]]
              after == modules'[last'.args[1]]
          IN /\ after.id = NULL
             /\ after.index = NULL
             /\ after.index2 = NULL
             /\ after.depth = NULL
             /\ after._chunks = {}
             /\ after.reasons = before.reasons
             /\ after.dependencies = before.dependencies
             /\ after.hash = before.hash
             /\ after.renderedHash = before.renderedHash
             /\ after.used = before.used
             /\ after.usedExports = before.usedExports
             /\ after.issuer = before.issuer
             /\ after.built = before.built
             /\ after.debugId = before.debugId
             /\ depModule' = depModule]_vars

\* an unsealed module that was built and sealed and has reasons
C10_Witness ==
    /\ last.op = "unseal"
    /\ LET m == modules[last.args[1]]
       IN /\ m.id = NULL
          /\ m.hash = "hash"
          /\ m.used = "true"
          /\ m.built
          /\ m.issuer = "A"
          /\ m.dependencies # <<>>
          /\ m.reasons # <<>>

----------------------------------------------------------------------------
(* Dependency: getReference and updateHash *)

\* most update calls on one hash object
MaxHashUpdates == 2

\* the value null as a method's result where other results are objects
NullValue == [tag |-> "null"]

\* new DependencyReference(module, importedNames, weak)
DependencyReference(module, importedNames, weak) ==
    [tag |-> "DependencyReference", module |-> module,
     importedNames |-> importedNames, weak |-> weak]

\* value + "": the string JavaScript makes of null, undefined or an id
JSToString(value) ==
    IF value = NULL THEN "null"
    ELSE IF value = UNDEFINED THEN "undefined"
    ELSE value

\* hash.update(data)
hashUpdate(h, data) == [h EXCEPT !.hash = Append(@, data)]

\* Dependency.getReference()
getReference(h, dep) ==
    IF h.depModule[dep] = NULL THEN Outcome(h, NullValue)
    ELSE Outcome(h, DependencyReference(h.depModule[dep], TRUE, h.depFlags[dep].weak))

\* Dependency.updateHash that reads the id through an optional chain
\* (this.module?.id), undefined when there is no target module
Dependency_updateHash_optionalChain(h, dep) ==
    LET module == h.depModule[dep]
        value == IF module = NULL THEN UNDEFINED ELSE h.modules[module].id
    IN Outcome(hashUpdate(h, JSToString(value)), UNDEFINED)

\* Dependency.updateHash(hash): hash.update((this.module && this.module.id) + "")
Dependency_updateHash(h, dep) ==
    LET module == h.depModule[dep]
        value == IF module = NULL THEN NULL ELSE h.modules[module].id
    IN Outcome(hashUpdate(h, JSToString(value)), UNDEFINED)

\* NullDependency.updateHash(): empty body
NullDependency_updateHash(h, dep) == Outcome(h, UNDEFINED)

\* the dependencies that are instances of NullDependency
NullDependencies == {"e1"}

GetReference(dep) ==
    Apply("Dependency.getReference", <<dep>>, getReference(Heap, dep))

UpdateHash(dep) ==
    /\ Len(hash) < MaxHashUpdates
    /\ dep \notin NullDependencies
    /\ Apply("Dependency.updateHash", <<dep>>, Dependency_updateHash(Heap, dep))

NullUpdateHash(dep) ==
    /\ dep \in NullDependencies
    /\ Apply("NullDependency.updateHash", <<dep>>, NullDependency_updateHash(Heap, dep))

DependencyDisconnect(dep) ==
    Apply("Dependency.disconnect", <<dep>>, Outcome(Dependency_disconnect(Heap, dep), UNDEFINED))

\* dependencies resolved to a module or not, weak or not; modules with an
\* id or without; a hash nobody has updated
InitDependency ==
    /\ debugId = 1002
    /\ \E idM \in {NULL, "1"}, idA \in {NULL, "2"} :
          modules = [m \in Modules |->
                       IF m = "M" THEN [Module(1000) EXCEPT !.id = idM]
                                  ELSE [Module(1001) EXCEPT !.id = idA]]
    /\ chunkModules = [c \in Chunks |-> {}]
    /\ depModule \in [Dependencies -> Modules \cup {NULL}]
    /\ depFlags \in [Dependencies -> [weak : BOOLEAN, optional : {FALSE}]]
    /\ hash = <<>>
    /\ walk = NoWalk
    /\ NoGraph
    /\ last = NoCall

NextDependency ==
    \/ \E dep \in Dependencies : GetReference(dep)
    \/ \E dep \in Dependencies : UpdateHash(dep)
    \/ \E dep \in Dependencies : NullUpdateHash(dep)
    \/ \E dep \in Dependencies : DependencyDisconnect(dep)

SpecDependency == InitDependency /\ [][NextDependency]_vars

\* C11, as stated: while dependency.module is null, getReference() returns
\* null and updateHash(hash) makes no update call, so the hash stays exactly
\* as it was.
C11_NoTargetNoHashContribution ==
    [][LET dep == last'.args[1]
       IN /\ (last'.op = "Dependency.getReference" /\ depModule[dep] = NULL)
                => last'.ret = NullValue
          /\ (last'.op \in {"Dependency.updateHash", "NullDependency.updateHash"}
              /\ depModule[dep] = NULL)
                => hash' = hash]_vars

\* C11, amended: while dependency.module is null, getReference() returns
\* null; Dependency.updateHash(hash) makes exactly one update call, with the
\* string "null", the same string it feeds for a target whose id is null;
\* only NullDependency.updateHash makes no update call.
C11_NoTargetHashesNullString ==
    [][LET dep == last'.args[1]
       IN /\ (last'.op = "Dependency.getReference" /\ depModule[dep] = NULL)
                => last'.ret = NullValue
          /\ (last'.op = "Dependency.updateHash" /\ depModule[dep] = NULL)
                => hash' = Append(hash, "null")
          /\ (last'.op = "Dependency.updateHash" /\ depModule[dep] # NULL
              /\ modules[depModule[dep]].id = NULL)
                => hash' = Append(hash, "null")
          /\ last'.op = "NullDependency.updateHash"
                => hash' = hash]_vars

\* a disconnected dependency has updated a hash that held an id already
C11_Witness ==
    /\ last.op = "Dependency.updateHash"
    /\ depModule[last.args[1]] = NULL
    /\ hash = <<"1", "null">>

----------------------------------------------------------------------------
(* Module: debugId *)

\* let debugId = 1000
FirstDebugId == 1000

\* most modules constructed after M and A
MaxConstructed == 3

\* debugId++ without the increment
nextDebugId_noIncrement(counter) == counter

\* debugId++: the counter after a construction
nextDebugId(counter) == counter + 1

\* new Module(): the object takes the counter's value and the name m; the
\* object the name stood for before is dropped
Construct(m) ==
    /\ debugId < FirstDebugId + Cardinality(Modules) + MaxConstructed
    /\ modules' = [modules EXCEPT ![m] = Module(debugId)]
    /\ debugId' = nextDebugId(debugId)
    /\ last' = Call("constructor", <<m>>, Outcome(Heap, UNDEFINED))
    /\ UNCHANGED <<chunkModules, depModule, depFlags, hash, walk, graphVars>>

NextConstruct ==
    \/ \E m \in Modules : Construct(m)
    \/ \E this \in Modules : Build(this)
    \/ \E this \in Modules : Seal(this)
    \/ \E this \in Modules : Unseal(this)
    \/ \E this \in Modules : Disconnect(this)
    \/ \E this \in Modules : Unbuild(this)

SpecConstruct == Init /\ [][NextConstruct]_vars

\* C12: any two modules have distinct debugIds and every debugId handed out
\* is below the counter; a construction gives the new module the counter's
\* value, strictly larger than the debugId of every module constructed
\* before, and moves the counter up by one; unseal, disconnect and unbuild
\* change neither a module's debugId nor the counter.
C12_DebugIdAssignedOnce ==
    /\ [](/\ \A m, n \in Modules : m # n => modules[m].debugId # modules[n].debugId
          /\ \A m \in Modules : modules[m].debugId < debugId)
    /\ [][/\ last'.op = "constructor" =>
                LET m == last'.args[1]
                IN /\ modules'[m].debugId = debugId
                   /\ \A n \in Modules : modules'[m].debugId > modules[n].debugId
                   /\ \A n \in Modules \ {m} : modules'[n].debugId = modules[n].debugId
                   /\ debugId' = debugId + 1
          /\ last'.op \in {"unseal", "disconnect", "unbuild"} =>
                /\ debugId' = debugId
                /\ \A n \in Modules : modules'[n].debugId = modules[n].debugId]_vars

\* a module constructed after M and A was built, sealed and unbuilt, and
\* another module was constructed after it
C12_Witness ==
    /\ last.op = "unbuild"
    /\ modules[last.args[1]].debugId = FirstDebugId + 2
    /\ debugId = FirstDebugId + 4

----------------------------------------------------------------------------
(* Module: optional *)

\* this.reasons.every(r => r.dependency && r.dependency.optional), from the
\* i-th reason on
RECURSIVE reasonsEveryOptionalFrom(_, _, _)
reasonsEveryOptionalFrom(h, reasons, i) ==
    IF i > Len(reasons) THEN TRUE
    ELSE IF reasons[i].dependency = NULL THEN FALSE
    ELSE IF ~h.depFlags[reasons[i].dependency].optional THEN FALSE
    ELSE reasonsEveryOptionalFrom(h, reasons, i + 1)

\* get optional() without the test of the list's length
optional_emptyIsOptional(h, this) ==
    Outcome(h, reasonsEveryOptionalFrom(h, h.modules[this].reasons, 1))

\* get optional()
optional(h, this) ==
    Outcome(h, /\ Len(h.modules[this].reasons) > 0
               /\ reasonsEveryOptionalFrom(h, h.modules[this].reasons, 1))

GetOptional(this) ==
    Apply("optional", <<this>>, optional(Heap, this))

\* (origin module, dependency) pairs of the reasons of an optional or a
\* required module: with and without a dependency
OptionalReasonArgs == {<<"A", "d1">>, <<"A", "d2">>, <<"A", NULL>>, <<NULL, "d1">>}

\* the modules as constructed, the dependencies optional or not
InitOptional ==
    /\ Constructed
    /\ chunkModules = [c \in Chunks |-> {}]
    /\ Resolved
    /\ depFlags \in [Dependencies -> [weak : {FALSE}, optional : BOOLEAN]]
    /\ hash = <<>>
    /\ walk = NoWalk
    /\ NoGraph
    /\ last = NoCall

NextOptional ==
    \/ \E this \in Receivers, a \in OptionalReasonArgs : AddReason(this, a[1], a[2])
    \/ \E this \in Receivers, k \in OptionalReasonArgs : RemoveReason(this, k[1], k[2])
    \/ \E this \in Receivers : Disconnect(this)
    \/ \E this \in Receivers : GetOptional(this)

SpecOptional == InitOptional /\ [][NextOptional]_vars

\* C13: in every state reached by addReason, removeReason and disconnect,
\* reading module.optional gives true exactly when the reasons list is not
\* empty and every reason has a dependency, and that dependency's optional
\* flag is true.
C13_OptionalDerived ==
    \A this \in Receivers :
        LET reasons == Range(modules[this].reasons)
            derived == /\ reasons # {}
                       /\ \A r \in reasons :
                             /\ r.dependency # NULL
                             /\ depFlags[r.dependency].optional
        IN /\ optional(Heap, this).ret = derived
           /\ (last.op = "optional" /\ last.args[1] = this) => last.ret = derived

\* optional read as true on a module with two reasons, while another
\* dependency is not optional
C13_Witness ==
    /\ last.op = "optional"
    /\ last.ret = TRUE
    /\ Len(modules[last.args[1]].reasons) = 2
    /\ \E d \in Dependencies : ~depFlags[d].optional

----------------------------------------------------------------------------
(* Claims: addChunk's result *)

\* C14: addChunk(c) returns true exactly when c was not in the module's
\* chunk set before the call, and then the set gains c and
\* getNumberOfChunks() goes up by one; it returns false when c was in the
\* set, and then the set and getNumberOfChunks() stay as they were;
\* getNumberOfChunks() is the number of chunks the module is in.
C14_AddChunkResult ==
    [][last'.op = "addChunk" =>
          LET this == last'.args[1]
              c == last'.args[2]
              before == modules[this]._chunks
              after == modules'[this]._chunks
          IN /\ last'.ret = (c \notin before)
             /\ after = before \cup {c}
             /\ c \in before => after = before
             /\ getNumberOfChunks(Heap', this) =
                   getNumberOfChunks(Heap, this) + (IF last'.ret THEN 1 ELSE 0)
             /\ getNumberOfChunks(Heap', this) =
                   Cardinality({chunk \in Chunks : isInChunk(Heap', this, chunk)})]_vars

\* addChunk returned false for a chunk the module was in, next to another
C14_Witness ==
    /\ last.op = "addChunk"
    /\ last.ret = FALSE
    /\ getNumberOfChunks(Heap, last.args[1]) = 2

----------------------------------------------------------------------------
(* Module: export usage *)

\* a result that is a boolean, a string or null, told apart by its tag
JSValue(tag, value) == [tag |-> tag, value |-> value]

JSBoolean(b) == JSValue("boolean", IF b THEN "true" ELSE "false")

JSString(str) == JSValue("string", str)

JSNull == JSValue("null", "null")

JSUndefined == JSValue("undefined", "undefined")

\* array.indexOf(x): the first position of x counted from 0, or -1
indexOf(array, x) ==
    IF \E i \in 1..Len(array) : array[i] = x
    THEN (CHOOSE i \in 1..Len(array) :
             array[i] = x /\ \A j \in 1..(i - 1) : array[j] # x) - 1
    ELSE -1

\* array.includes(x)
includes(array, x) == \E i \in 1..Len(array) : array[i] = x

\* Template.numberToIdentifer(n): a name of one letter for a small n
numberToIdentifer(n) == <<"a", "b", "c">>[n + 1]

\* isProvided that takes an unknown set of exports for one with the export
isProvided_unknownIsProvided(h, this, exportName) ==
    LET buildMeta == h.modules[this].buildMeta
    IN IF ~buildMeta.defined
       THEN [heap |-> h, ret |-> JSUndefined, exc |-> TypeError]
       ELSE IF ~buildMeta.providedIsArray THEN Outcome(h, JSBoolean(TRUE))
       ELSE Outcome(h, JSBoolean(includes(buildMeta.providedExports, exportName)))

\* isProvided(exportName)
isProvided(h, this, exportName) ==
    LET buildMeta == h.modules[this].buildMeta
    IN IF ~buildMeta.defined
       THEN [heap |-> h, ret |-> JSUndefined, exc |-> TypeError]
       ELSE IF ~buildMeta.providedIsArray THEN Outcome(h, JSNull)
       ELSE Outcome(h, JSBoolean(includes(buildMeta.providedExports, exportName)))

\* isUsed(exportName); exportName is UNDEFINED when the caller gives none
isUsed(h, this, exportName) ==
    LET m == h.modules[this]
        idx == indexOf(m.usedExports.names, exportName)
        provided == isProvided(h, this, exportName)
    IN IF exportName = UNDEFINED THEN Outcome(h, JSBoolean(m.used # "false"))
       ELSE IF m.used = NULL \/ m.usedExports.tag = "null"
       THEN Outcome(h, JSString(exportName))
       ELSE IF m.used = "false" THEN Outcome(h, JSBoolean(FALSE))
       ELSE IF m.usedExports.tag = "false" THEN Outcome(h, JSBoolean(FALSE))
       ELSE IF m.usedExports.tag = "true" THEN Outcome(h, JSString(exportName))
       ELSE IF idx < 0 THEN Outcome(h, JSBoolean(FALSE))
       ELSE IF provided.exc # NoException THEN provided
       ELSE IF provided.ret = JSBoolean(TRUE)
       THEN IF m.buildMeta.exportsType = "namespace"
            THEN Outcome(h, JSString(numberToIdentifer(idx)))
            ELSE IF /\ m.buildMeta.exportsType = "named"
                    /\ ~includes(m.usedExports.names, "default")
            THEN Outcome(h, JSString(numberToIdentifer(idx)))
            ELSE Outcome(h, JSString(exportName))
       ELSE Outcome(h, JSString(exportName))

IsUsed(this, exportName) ==
    Apply("isUsed", <<this, exportName>>, isUsed(Heap, this, exportName))

IsProvided(this, exportName) ==
    Apply("isProvided", <<this, exportName>>, isProvided(Heap, this, exportName))

\* the export names the calls ask for
ExportNames == {"foo", "bar", "default"}

\* this.used as the usage analysis leaves it
UsedValues == {NULL, "false", "true"}

\* this.usedExports as the usage analysis leaves it: null, false, true or
\* an array of names
UsedExportsValues ==
    {[tag |-> t, names |-> <<>>] : t \in {"null", "false", "true"}}
    \cup {[tag |-> "array", names |-> n] :
            n \in {<<>>, <<"foo">>, <<"foo", "bar">>, <<"bar", "foo">>,
                   <<"default", "foo">>, <<"foo", "default">>}}

\* this.buildMeta of a built module: the exports type, and providedExports
\* an array of names or not an array
BuildMetaValues ==
    {[defined |-> TRUE, exportsType |-> t, providedIsArray |-> FALSE,
      providedExports |-> <<>>] : t \in {"namespace", "named", UNDEFINED}}
    \cup {[defined |-> TRUE, exportsType |-> t, providedIsArray |-> TRUE,
           providedExports |-> e] :
            t \in {"namespace", "named", UNDEFINED},
            e \in {<<>>, <<"foo">>, <<"bar">>, <<"foo", "default">>, <<"default", "foo", "bar">>}}

\* M built and analysed for usage: the usage analysis runs on built modules
InitUsed ==
    /\ debugId = 1002
    /\ \E used \in UsedValues, usedExports \in UsedExportsValues,
          buildMeta \in BuildMetaValues :
          modules = [m \in Modules |->
                       IF m = "M"
                       THEN [Module(1000) EXCEPT !.built = TRUE,
                                                 !.buildMeta = buildMeta,
                                                 !.used = used,
                                                 !.usedExports = usedExports]
                       ELSE Module(1001)]
    /\ chunkModules = [c \in Chunks |-> {}]
    /\ Resolved
    /\ Fresh
    /\ NoGraph
    /\ last = NoCall

NextUsed ==
    \/ \E this \in Receivers, exportName \in ExportNames \cup {UNDEFINED} :
           IsUsed(this, exportName)
    \/ \E this \in Receivers, exportName \in ExportNames :
           IsProvided(this, exportName)

SpecUsed == InitUsed /\ [][NextUsed]_vars

\* the rules of isUsed in their order, for a module m and a name; noDefault
\* says what "without a default export" means
UsedRule(m, exportName, noDefault) ==
    LET names == m.usedExports.names
        inUsedExports == m.usedExports.tag = "true" \/ exportName \in Range(names)
        providedExports == Range(m.buildMeta.providedExports)
        isProvidedExport == m.buildMeta.providedIsArray /\ exportName \in providedExports
        index == CHOOSE i \in 1..Len(names) :
                    names[i] = exportName /\ \A j \in 1..(i - 1) : names[j] # exportName
    IN IF exportName = UNDEFINED THEN JSBoolean(m.used # "false")
       ELSE IF m.used = NULL \/ m.usedExports.tag = "null" THEN JSString(exportName)
       ELSE IF \/ m.used = "false"
               \/ m.usedExports.tag = "false"
               \/ (m.usedExports.tag = "array" /\ names = <<>>)
               \/ ~inUsedExports
       THEN JSBoolean(FALSE)
       ELSE IF m.usedExports.tag = "true" THEN JSString(exportName)
       ELSE IF /\ isProvidedExport
               /\ \/ m.buildMeta.exportsType = "namespace"
                  \/ (m.buildMeta.exportsType = "named" /\ noDefault)
       THEN JSString(numberToIdentifer(index - 1))
       ELSE JSString(exportName)

\* C15, as stated: isUsed follows the rules in their order, and rule 5
\* mangles a provided export of a 'named' module only when the module has
\* no default export, that is, "default" is not among its provided exports.
C15_IsUsedRules ==
    last.op = "isUsed" =>
        LET m == modules[last.args[1]]
        IN /\ last.exc = NoException
           /\ last.ret = UsedRule(m, last.args[2],
                                  "default" \notin Range(m.buildMeta.providedExports))

\* C15, amended: isUsed follows the rules in their order, and rule 5
\* mangles a provided export of a 'named' module only when "default" is not
\* among the used exports (usedExports); whether the module provides a
\* default export plays no part.
C15_IsUsedRulesDefaultUnused ==
    last.op = "isUsed" =>
        LET m == modules[last.args[1]]
        IN /\ last.exc = NoException
           /\ last.ret = UsedRule(m, last.args[2],
                                  "default" \notin Range(m.usedExports.names))

\* a 'named' module that provides a default export nobody uses: its used
\* export foo, second in usedExports, is mangled
C15_Witness ==
    /\ last.op = "isUsed"
    /\ last.args[2] = "foo"
    /\ last.ret = JSString("b")
    /\ LET m == modules[last.args[1]]
       IN /\ m.buildMeta.exportsType = "named"
          /\ "default" \in Range(m.buildMeta.providedExports)
          /\ m.usedExports.names = <<"bar", "foo">>

----------------------------------------------------------------------------
(* Claims: the group the loop tests *)

\* the module is in a chunk of the group other than ignoreChunk
InGroupIgnoring(this, g, ignoreChunk) ==
    \E c \in groupChunks[g] : c # ignoreChunk /\ containsModule(Heap, c, this)

RECURSIVE WalkedFrom(_, _, _, _)
\* the groups a walk from S comes to in at most n rounds, when it goes on
\* to the parents of each group that does not hold the module
WalkedFrom(this, ignoreChunk, S, n) ==
    IF n = 0 THEN S
    ELSE WalkedFrom(this, ignoreChunk,
                    S \cup UNION {parents[g] : g \in {x \in S : ~InGroupIgnoring(this, x, ignoreChunk)}},
                    n - 1)

\* the groups on the upward paths from g, each path cut at the first group
\* that holds the module
Walked(this, ignoreChunk, g) == WalkedFrom(this, ignoreChunk, {g}, Cardinality(Groups))

\* C16, as stated: the initial-group test is made on the group being
\* processed, so isAccessibleInChunkGroup(G) is false whenever some upward
\* path from G comes, at any depth, to an initial group that does not hold
\* the module without passing a group that holds it; true is returned only
\* when there is no such group.
C16_CurrentGroupDecides ==
    \A this \in Receivers, G \in Groups :
        GroupQuery(this, G) =>
            /\ last.exc = NoException
            /\ (\E g \in Walked(this, last.args[3], G) :
                    initial[g] /\ ~InGroupIgnoring(this, g, last.args[3]))
                  => last.ret = FALSE

----------------------------------------------------------------------------
(* Claims: chunk membership across the lifecycle *)

\* C17, as stated: when m.unseal(), m.disconnect(), m.unbuild() or
\* m.setChunks(other) drops from m's chunk set a chunk c that was mutually
\* member with m, c no longer contains m afterwards, so m.isInChunk(c) and
\* c.containsModule(m) still agree.
C17_LifecycleKeepsSymmetry ==
    [][last'.op \in {"unseal", "disconnect", "unbuild", "setChunks"} =>
          LET this == last'.args[1]
          IN \A c \in Chunks :
                (/\ isInChunk(Heap, this, c)
                 /\ containsModule(Heap, c, this)
                 /\ ~isInChunk(Heap', this, c))
                    => ~containsModule(Heap', c, this)]_vars

----------------------------------------------------------------------------
(* Module: the loop of isAccessibleInChunkGroup, one group at a time *)

\* const queue = new Set([chunkGroup]): the loop is about to take the
\* first group
WalkStart(this, chunkGroup, ignoreChunk) ==
    /\ walk.pc = "idle"
    /\ walk' = [pc |-> "loop", this |-> this, chunkGroup |-> chunkGroup,
                ignoreChunk |-> ignoreChunk, queue |-> <<chunkGroup>>, i |-> 1,
                ret |-> FALSE]
    /\ UNCHANGED <<modules, debugId, chunkModules, depModule, depFlags, hash,
                   graphVars, last>>

\* one round of `for (const cg of queue)`: the next group of the queue is
\* processed, or the queue is at its end and the call returns true
WalkStep ==
    /\ walk.pc = "loop"
    /\ IF walk.i > Len(walk.queue)
       THEN walk' = [walk EXCEPT !.pc = "done", !.ret = TRUE]
       ELSE LET cg == walk.queue[walk.i]
            IN IF \E chunk \in groupChunks[cg] :
                      chunk # walk.ignoreChunk /\ containsModule(Heap, chunk, walk.this)
               THEN walk' = [walk EXCEPT !.i = @ + 1]
               ELSE IF isInitial(walk.chunkGroup)
               THEN walk' = [walk EXCEPT !.pc = "done", !.ret = FALSE]
               ELSE walk' = [walk EXCEPT
                                !.queue = QueueAddAll(@, GroupSeq(parentsIterable(walk.chunkGroup)), 1),
                                !.i = @ + 1]
    /\ UNCHANGED <<modules, debugId, chunkModules, depModule, depFlags, hash,
                   graphVars, last>>

NextWalk ==
    \/ \E this \in Receivers, ignoreChunk \in Chunks \cup {UNDEFINED} :
           WalkStart(this, "g1", ignoreChunk)
    \/ WalkStep

SpecWalk == InitGroup /\ [][NextWalk]_vars

\* C18: on every graph, with cycles and self-loops among them, the queue
\* never holds a group twice and never more groups than there are; the loop
\* can always take its next round, each round moves on to the next position
\* of the queue or ends the call, so the call ends after at most one round
\* per group and one more, each group processed at most once; the result is
\* the one the call as a whole gives.
C18_WalkTerminates ==
    /\ [](walk.pc # "idle" =>
            /\ \A j, k \in 1..Len(walk.queue) : walk.queue[j] = walk.queue[k] => j = k
            /\ Len(walk.queue) <= Cardinality(Groups)
            /\ walk.i <= Len(walk.queue) + 1
            /\ walk.pc = "loop" => ENABLED WalkStep
            /\ walk.pc = "done" =>
                  walk.ret = isAccessibleInChunkGroup(Heap, walk.this, walk.chunkGroup,
                                                      walk.ignoreChunk))
    /\ [][walk.pc = "loop" =>
             \/ walk'.pc = "done" /\ walk'.queue = walk.queue
             \/ /\ walk'.pc = "loop"
                /\ walk'.i = walk.i + 1
                /\ SubSeq(walk'.queue, 1, Len(walk.queue)) = walk.queue]_vars

\* the walk ended with true on a cycle: g1 and g2 are each other's parent,
\* neither is initial nor holds the module, and both were processed
C18_Witness ==
    /\ walk.pc = "done"
    /\ walk.ret = TRUE
    /\ walk.queue = <<"g1", "g2">>
    /\ walk.i = 3
    /\ parents["g1"] = {"g2"}
    /\ parents["g2"] = {"g1"}

----------------------------------------------------------------------------
(* Claims: the queries *)

\* the graphs and reasons of InitReason are closed under renaming the
\* chunks and the groups, so the queries ask about c1 and start at g1
NextQuery ==
    \/ \E this \in Receivers : HasReasonForChunk(this, "c1")
    \/ \E this \in Receivers : IsAccessibleInChunk(this, "c1", UNDEFINED)
    \/ \E this \in Receivers, ignoreChunk \in {UNDEFINED, "c2"} :
           IsAccessibleInChunkGroup(this, "g1", ignoreChunk)

SpecQuery == InitReason /\ [][NextQuery]_vars

\* C19: isAccessibleInChunk, isAccessibleInChunkGroup and hasReasonForChunk
\* leave every module's fields (chunk set, reasons, ids), every chunk's
\* module set, every group's chunks, parents and initial flag and every
\* dependency as they were; so each query gives after the call what it gave
\* before it, in whatever order the queries are made.
C19_QueriesReadOnly ==
    [][last'.op \in {"isAccessibleInChunk", "isAccessibleInChunkGroup", "hasReasonForChunk"} =>
          /\ modules' = modules
          /\ chunkModules' = chunkModules
          /\ groupChunks' = groupChunks
          /\ parents' = parents
          /\ initial' = initial
          /\ depModule' = depModule
          /\ \A this \in Receivers :
                /\ hasReasonForChunk(Heap', this, "c1") = hasReasonForChunk(Heap, this, "c1")
                /\ isAccessibleInChunk(Heap', this, "c1", UNDEFINED) =
                      isAccessibleInChunk(Heap, this, "c1", UNDEFINED)
                /\ isAccessibleInChunkGroup(Heap', this, "g1", UNDEFINED) =
                      isAccessibleInChunkGroup(Heap, this, "g1", UNDEFINED)]_vars

\* hasReasonForChunk returned true on a module with a reason and a chunk,
\* in a graph with a parent link
C19_Witness ==
    /\ last.op = "hasReasonForChunk"
    /\ last.exc = NoException
    /\ last.ret = TRUE
    /\ modules[last.args[1]].reasons # <<>>
    /\ modules[last.args[1]]._chunks # {}
    /\ \E g \in Groups : parents[g] # {}

\* C20, as stated: hasReasonForChunk(chunk) never raises and returns a
\* boolean, whatever the reasons list holds, a reason without an origin
\* module among them.
C20_HasReasonForChunkNeverRaises ==
    last.op = "hasReasonForChunk" =>
        /\ last.exc = NoException
        /\ last.ret \in BOOLEAN

====
